---- MODULE Spec2Model ----
(***************************************************************************)
(* A model of acgtag.py, the translation of a Tree-Adjoining Grammar into  *)
(* an Abstract Categorial Grammar.                                         *)
(*                                                                         *)
(* Symbols (Python str) whose characters the program inspects are          *)
(* sequences of one-character strings; Str turns such a sequence into the  *)
(* text the program formats into type and constant names.                  *)
(***************************************************************************)
EXTENDS Integers, Sequences, FiniteSets, TLC

VARIABLES
    pc,          \* position of the run
    contents,    \* the input record handed to TAG(contents)
    tag,         \* the TAG object: terminals, nonterminals, initials, auxiliaries
    signatures,  \* ACG.signatures
    lexicons,    \* ACG.lexicons
    metadata,    \* ACG.metadata
    symbol,      \* the root argument of one Tree(...) call, as name and marker
    tree,        \* a Tree object: the result of Tree(...) or of parseTree
    initial,     \* the flag handed to typeForTree / lambdaRealizationOfTree
    treeType,    \* what typeForTree returned for tree
    treeTerm     \* what lambdaRealizationOfTree returned for tree

vars == <<pc, contents, tag, signatures, lexicons, metadata,
          symbol, tree, initial, treeType, treeTerm>>

(***************************************************************************)
(* Bounds of the model.                                                    *)
(***************************************************************************)
\* longest symbol name X handed to Tree(...) in SpecNode
MaxNameLen == 2
\* most nodes of a tree handed to typeForTree / lambdaRealizationOfTree in SpecTree
MaxNodes == 4
\* most elementary trees (initials and auxiliaries together) of a grammar in Spec
MaxTrees == 3

(***************************************************************************)
(* Python values and string operations.                                    *)
(***************************************************************************)
None == "None"

Range(s) == {s[i] : i \in DOMAIN s}

Upper == {"A", "B", "C", "D", "E", "F", "G", "H", "I", "J", "K", "L", "M",
          "N", "O", "P", "Q", "R", "S", "T", "U", "V", "W", "X", "Y", "Z"}

RECURSIVE Str(_)
Str(cs) == IF cs = <<>> THEN "" ELSE Head(cs) \o Str(Tail(cs))

RECURSIVE Join(_, _)
Join(strs, sep) ==
    IF strs = <<>> THEN ""
    ELSE IF Len(strs) = 1 THEN strs[1]
    ELSE strs[1] \o sep \o Join(Tail(strs), sep)

endswith(s, suffix) ==
    /\ Len(suffix) <= Len(s)
    /\ SubSeq(s, Len(s) - Len(suffix) + 1, Len(s)) = suffix

RECURSIVE rstrip(_, _)
rstrip(s, chars) ==
    IF s # <<>> /\ s[Len(s)] \in Range(chars)
    THEN rstrip(SubSeq(s, 1, Len(s) - 1), chars)
    ELSE s

RECURSIVE Flatten(_)
Flatten(seqs) == IF seqs = <<>> THEN <<>> ELSE Head(seqs) \o Flatten(Tail(seqs))

(***************************************************************************)
(* ACG.is_nonterminal and Tree.__init__.                                   *)
(***************************************************************************)
is_nonterminal(node) == node[1] \in Upper

NA == <<"_", "N", "A">>
STAR == <<"*">>

Tree(root, children) ==
    LET nonadjoining == is_nonterminal(root) /\ endswith(root, NA)
        root1 == IF nonadjoining THEN rstrip(root, NA) ELSE root
        footnode == endswith(root1, STAR)
        root2 == IF footnode THEN rstrip(root1, STAR) ELSE root1
    IN  [identifier |-> None, varname |-> None, children |-> children,
         nonadjoining |-> nonadjoining, footnode |-> footnode, root |-> root2]

(***************************************************************************)
(* TAG: parseTree on the data sexpdata.loads returned (a Symbol is         *)
(* [value |-> chars], a list is [items |-> <<...>>]), then numberTrees.    *)
(***************************************************************************)
RECURSIVE parseSymList(_)
parseSymList(symList) ==
    IF "items" \in DOMAIN symList
    THEN Tree(symList.items[1].value,
              [k \in 1..(Len(symList.items) - 1) |-> parseSymList(symList.items[k + 1])])
    ELSE Tree(symList.value, <<>>)

parseTree(data) == parseSymList(data)

parseTrees(trees) == [k \in DOMAIN trees |-> parseTree(trees[k])]

numberFrom(trees, prefix, count) ==
    [k \in DOMAIN trees |->
        [trees[k] EXCEPT !.identifier = prefix \o ToString(count + k - 1)]]

\* numberTrees with the count started again at 0 for the auxiliaries
numberTrees_restart(t) ==
    [t EXCEPT !.initials = numberFrom(t.initials, "C_TI", 0),
              !.auxiliaries = numberFrom(t.auxiliaries, "C_TA", 0)]

numberTrees(t) ==
    [t EXCEPT !.initials = numberFrom(t.initials, "C_TI", 0),
              !.auxiliaries = numberFrom(t.auxiliaries, "C_TA", Len(t.initials))]

TAG(c) ==
    numberTrees([terminals |-> c.terminals,
                 nonterminals |-> c.nonterminals,
                 initials |-> parseTrees(c.initials),
                 auxiliaries |-> parseTrees(c.auxiliaries),
                 distinguished |-> c.distinguished])

(***************************************************************************)
(* ACG.typeForTree.  traverse threads the two lists and the flag of the    *)
(* enclosing call; interior_at and substitution_at record, beside each     *)
(* appended type, the path of the node that appended it.                   *)
(***************************************************************************)
traverseStart ==
    [interior_nodes |-> <<>>, substitution_nodes |-> <<>>,
     footnodeIsNonadjoining |-> FALSE,
     interior_at |-> <<>>, substitution_at |-> <<>>]

RECURSIVE traverse(_, _, _)
RECURSIVE traverseChildren(_, _, _, _)

\* traverse with the nonadjoining-footnode test made on the root and its
\* children only
traverse_shallowFootnode(t, path, st) ==
    LET st1 == IF is_nonterminal(t.root) /\ ~ t.footnode /\ ~ t.nonadjoining
               THEN IF Len(t.children) > 0
                    THEN [st EXCEPT !.interior_nodes = Append(@, Str(t.root) \o "_A"),
                                    !.interior_at = Append(@, path)]
                    ELSE [st EXCEPT !.substitution_nodes = Append(@, Str(t.root) \o "_S"),
                                    !.substitution_at = Append(@, path)]
               ELSE st
        st2 == traverseChildren(t.children, 1, path, st1)
    IN  IF t.footnode /\ t.nonadjoining /\ Len(path) <= 1
        THEN [st2 EXCEPT !.footnodeIsNonadjoining = TRUE]
        ELSE st2

traverse(t, path, st) ==
    LET st1 == IF is_nonterminal(t.root) /\ ~ t.footnode
               THEN IF Len(t.children) > 0
                    THEN IF ~ t.nonadjoining
                         THEN [st EXCEPT !.interior_nodes = Append(@, Str(t.root) \o "_A"),
                                         !.interior_at = Append(@, path)]
                         ELSE st
                    ELSE IF ~ t.nonadjoining
                         THEN [st EXCEPT !.substitution_nodes = Append(@, Str(t.root) \o "_S"),
                                         !.substitution_at = Append(@, path)]
                         ELSE st
               ELSE st
        st2 == traverseChildren(t.children, 1, path, st1)
    IN  IF t.footnode /\ t.nonadjoining
        THEN [st2 EXCEPT !.footnodeIsNonadjoining = TRUE]
        ELSE st2

traverseChildren(children, k, path, st) ==
    IF k > Len(children) THEN st
    ELSE traverseChildren(children, k + 1, path,
                          traverse(children[k], Append(path, k), st))

\* typeRoot without the test of the initial flag
typeRoot_adjoining(t, init, footnodeIsNonadjoining) ==
    IF footnodeIsNonadjoining THEN <<Str(t.root) \o "_A">>
    ELSE <<Str(t.root) \o "_A -> " \o Str(t.root) \o "_A">>

typeRoot(t, init, footnodeIsNonadjoining) ==
    IF init THEN <<Str(t.root) \o "_S">>
    ELSE IF footnodeIsNonadjoining THEN <<Str(t.root) \o "_A">>
    ELSE <<Str(t.root) \o "_A -> " \o Str(t.root) \o "_A">>

\* typeNodes with the two lists concatenated in the other order
typeNodes_substitutionFirst(t, init) ==
    LET st == traverse(t, <<>>, traverseStart)
    IN  st.substitution_nodes \o st.interior_nodes
            \o typeRoot(t, init, st.footnodeIsNonadjoining)

typeNodes(t, init) ==
    LET st == traverse(t, <<>>, traverseStart)
    IN  st.interior_nodes \o st.substitution_nodes
            \o typeRoot(t, init, st.footnodeIsNonadjoining)

typeSites(t) ==
    LET st == traverse(t, <<>>, traverseStart)
    IN  st.interior_at \o st.substitution_at

typeForTree(t, init) == Join(typeNodes(t, init), " -> ")

(***************************************************************************)
(* ACG.generateDerivedTreeConstants and ACG.treeTypeOfLength.              *)
(***************************************************************************)
RECURSIVE branchingTraverse(_, _)
RECURSIVE branchingChildren(_, _, _)

\* branchingTraverse with the count stored without the comparison
branchingTraverse_lastSeen(t, branching) ==
    IF is_nonterminal(t.root)
    THEN branchingChildren(t.children, 1,
                           [branching EXCEPT ![t.root] = Len(t.children)])
    ELSE branching

branchingTraverse(t, branching) ==
    IF is_nonterminal(t.root)
    THEN LET numChildren == Len(t.children)
             root == t.root
             b1 == IF numChildren > branching[root]
                   THEN [branching EXCEPT ![root] = numChildren]
                   ELSE branching
         IN  branchingChildren(t.children, 1, b1)
    ELSE branching

branchingChildren(children, k, branching) ==
    IF k > Len(children) THEN branching
    ELSE branchingChildren(children, k + 1, branchingTraverse(children[k], branching))

derivedTreeConstants(t) ==
    LET branching == branchingChildren(t.initials \o t.auxiliaries, 1,
                                       [n \in Range(t.nonterminals) |-> 0])
    IN  Flatten([k \in DOMAIN t.nonterminals |->
                    [i \in 1..branching[t.nonterminals[k]] |->
                        [symbol |-> Str(t.nonterminals[k]) \o "_" \o ToString(i),
                         size |-> i]]])

treeTypeOfLength(x) == Join([k \in 1..x |-> "tree"], " -> ")

(***************************************************************************)
(* ACG.lambdaRealizationOfTree.  varTraverse annotates a copy of the tree  *)
(* and threads i and the two variable lists; constructExpression returns   *)
(* the expression as the pieces of text it is formatted from, each tagged  *)
(* with the branch that wrote it, and Render is the formatted string.      *)
(***************************************************************************)
varStart == [i |-> 0, interiorVars |-> <<>>, substitutionVars |-> <<>>]

RECURSIVE varTraverse(_, _)
RECURSIVE varTraverseChildren(_, _, _)

\* varTraverse recording no variable for a footnode
varTraverse_skipFootnode(t, st) ==
    LET varname == "lvar" \o ToString(st.i)
        st1 == IF is_nonterminal(t.root)
               THEN [i |-> st.i + 1,
                     interiorVars |->
                        IF Len(t.children) > 0 /\ ~ t.nonadjoining /\ ~ t.footnode
                        THEN Append(st.interiorVars, varname) ELSE st.interiorVars,
                     substitutionVars |->
                        IF Len(t.children) = 0 /\ ~ t.nonadjoining /\ ~ t.footnode
                        THEN Append(st.substitutionVars, varname) ELSE st.substitutionVars]
               ELSE st
        r == varTraverseChildren(t.children, 1, st1)
    IN  [tree |-> [t EXCEPT !.varname = varname, !.children = r.children], st |-> r.st]

varTraverse(t, st) ==
    LET varname == "lvar" \o ToString(st.i)
        st1 == IF is_nonterminal(t.root)
               THEN [i |-> st.i + 1,
                     interiorVars |->
                        IF Len(t.children) > 0 /\ ~ t.nonadjoining
                        THEN Append(st.interiorVars, varname) ELSE st.interiorVars,
                     substitutionVars |->
                        IF Len(t.children) = 0 /\ ~ t.nonadjoining
                        THEN Append(st.substitutionVars, varname) ELSE st.substitutionVars]
               ELSE st
        r == varTraverseChildren(t.children, 1, st1)
    IN  [tree |-> [t EXCEPT !.varname = varname, !.children = r.children], st |-> r.st]

varTraverseChildren(children, k, st) ==
    IF k > Len(children) THEN [children |-> <<>>, st |-> st]
    ELSE LET first == varTraverse(children[k], st)
             rest == varTraverseChildren(children, k + 1, first.st)
         IN  [children |-> <<first.tree>> \o rest.children, st |-> rest.st]

\* allVars without the footnode variable of an auxiliary tree
allVars_noFootnodeVar(t, init) ==
    LET st == varTraverse(t, varStart).st
    IN  st.interiorVars \o st.substitutionVars

allVars(t, init) ==
    LET st == varTraverse(t, varStart).st
        footnodeVars == IF init = FALSE THEN <<"lvar">> ELSE <<>>
    IN  st.interiorVars \o st.substitutionVars \o footnodeVars

Piece(kind, text) == [kind |-> kind, text |-> text]

RECURSIVE JoinPieces(_, _)
JoinPieces(exprs, sep) ==
    IF exprs = <<>> THEN <<>>
    ELSE IF Len(exprs) = 1 THEN exprs[1]
    ELSE exprs[1] \o <<sep>> \o JoinPieces(Tail(exprs), sep)

RECURSIVE constructExpression(_)
constructExpression(t) ==
    IF ~ is_nonterminal(t.root) THEN <<Piece("terminal", Str(t.root))>>
    ELSE IF t.footnode
    THEN IF t.nonadjoining
         THEN <<Piece("var", "lvar")>>
         ELSE <<Piece("var", t.varname), Piece("text", " "), Piece("var", "lvar")>>
    ELSE LET childExpressions ==
                 [k \in DOMAIN t.children |->
                     <<Piece("text", "(")>> \o constructExpression(t.children[k])
                         \o <<Piece("text", ")")>>]
             application ==
                 <<Piece("text", "("),
                   Piece("constructor",
                         Str(t.root) \o "_" \o ToString(Len(childExpressions))),
                   Piece("text", " ")>>
                     \o JoinPieces(childExpressions, Piece("text", " "))
                     \o <<Piece("text", ")")>>
         IN  IF t.nonadjoining THEN application
             ELSE <<Piece("var", t.varname), Piece("text", " ")>> \o application

Render(expr) == Join([k \in DOMAIN expr |-> expr[k].text], "")

lambdaTerm(t, init) ==
    LET copy == varTraverse(t, varStart).tree
        vs == allVars(t, init)
        expr == constructExpression(copy)
    IN  [tree |-> copy, allVars |-> vs, expr |-> expr,
         text |-> "lambda " \o Join(vs, " ") \o "." \o " " \o Render(expr)]

lambdaRealizationOfTree(t, init) == lambdaTerm(t, init).text

(***************************************************************************)
(* Signature, Lexicon, ComposedLexicon and the generation steps of         *)
(* ACG.generateACG.                                                        *)
(***************************************************************************)
Signature(name) == [name |-> name, types |-> <<>>, constants |-> <<>>]

Lexicon(name, first, second) ==
    [name |-> name, first |-> first, second |-> second, mappings |-> <<>>]

ComposedLexicon(name, first, second) ==
    [name |-> name, first |-> first, second |-> second]

derivationTrees(t) ==
    [Signature("Derivation_trees") EXCEPT
        !.types = Flatten([k \in DOMAIN t.nonterminals |->
                      <<Str(t.nonterminals[k]) \o "_S", Str(t.nonterminals[k]) \o "_A">>]),
        !.constants =
            [k \in DOMAIN t.initials |->
                <<t.initials[k].identifier, typeForTree(t.initials[k], TRUE)>>]
            \o [k \in DOMAIN t.auxiliaries |->
                <<t.auxiliaries[k].identifier, typeForTree(t.auxiliaries[k], FALSE)>>]
            \o [k \in DOMAIN t.nonterminals |->
                <<"I_" \o Str(t.nonterminals[k]), Str(t.nonterminals[k]) \o "_A">>]]

derivedTrees(t, constants) ==
    LET TREE == treeTypeOfLength(1)
    IN  [Signature("Derived_trees") EXCEPT
            !.types = <<TREE>>,
            !.constants =
                [k \in DOMAIN t.terminals |-> <<Str(t.terminals[k]), TREE>>]
                \o [k \in DOMAIN constants |->
                    <<constants[k].symbol, treeTypeOfLength(constants[k].size + 1)>>]
                \o <<<<"Empty", TREE>>>>]

stringSignature(t) ==
    [Signature("Strings") EXCEPT
        !.types = <<"o", "string = o->o">>,
        !.constants =
            <<<<"infix + = lambda x y z. x (y z)", "string -> string -> string">>>>
            \o [k \in DOMAIN t.terminals |-> <<Str(t.terminals[k]), "string">>]
            \o <<<<"E = lambda lvar. lvar", "string">>>>]

absLexicon(t) ==
    [Lexicon("Abs", "Derivation_trees", "Derived_trees") EXCEPT
        !.mappings =
            Flatten([k \in DOMAIN t.nonterminals |->
                <<<<Str(t.nonterminals[k]) \o "_S", "tree">>,
                  <<Str(t.nonterminals[k]) \o "_A", "tree -> tree">>>>])
            \o [k \in DOMAIN t.initials |->
                <<t.initials[k].identifier, lambdaRealizationOfTree(t.initials[k], TRUE)>>]
            \o [k \in DOMAIN t.auxiliaries |->
                <<t.auxiliaries[k].identifier,
                  lambdaRealizationOfTree(t.auxiliaries[k], FALSE)>>]
            \o [k \in DOMAIN t.nonterminals |->
                <<"I_" \o Str(t.nonterminals[k]), "lambda lvar. lvar">>]]

concatFunctionOfLength(length) ==
    LET variables == [k \in 1..length |-> "x" \o ToString(k - 1)]
    IN  "lambda " \o Join(variables, " ") \o ". " \o Join(variables, " + ")

yieldLexicon(t, constants) ==
    [Lexicon("Yield", "Derived_trees", "Strings") EXCEPT
        !.mappings =
            <<<<"tree", "string">>>>
            \o [k \in DOMAIN t.terminals |-> <<Str(t.terminals[k]), Str(t.terminals[k])>>]
            \o [k \in DOMAIN constants |->
                <<constants[k].symbol, concatFunctionOfLength(constants[k].size)>>]
            \o <<<<"Empty", "E">>>>]

Unused == <<symbol, tree, initial, treeType, treeTerm>>

ParseTag ==
    /\ pc = "parseTag"
    /\ tag' = TAG(contents)
    /\ pc' = "generateDerivationTrees"
    /\ UNCHANGED <<contents, signatures, lexicons, metadata, Unused>>

GenerateDerivationTrees ==
    /\ pc = "generateDerivationTrees"
    /\ signatures' = Append(signatures, derivationTrees(tag))
    /\ pc' = "generateDerivedTreeConstants"
    /\ UNCHANGED <<contents, tag, lexicons, metadata, Unused>>

GenerateDerivedTreeConstants ==
    /\ pc = "generateDerivedTreeConstants"
    /\ metadata' = [derivedTreeConstants |-> derivedTreeConstants(tag)]
    /\ pc' = "generateDerivedTrees"
    /\ UNCHANGED <<contents, tag, signatures, lexicons, Unused>>

GenerateDerivedTrees ==
    /\ pc = "generateDerivedTrees"
    /\ signatures' = Append(signatures, derivedTrees(tag, metadata.derivedTreeConstants))
    /\ pc' = "generateStringSignature"
    /\ UNCHANGED <<contents, tag, lexicons, metadata, Unused>>

GenerateStringSignature ==
    /\ pc = "generateStringSignature"
    /\ signatures' = Append(signatures, stringSignature(tag))
    /\ pc' = "generateAbsLexicon"
    /\ UNCHANGED <<contents, tag, lexicons, metadata, Unused>>

GenerateAbsLexicon ==
    /\ pc = "generateAbsLexicon"
    /\ lexicons' = Append(lexicons, absLexicon(tag))
    /\ pc' = "generateYieldLexicons"
    /\ UNCHANGED <<contents, tag, signatures, metadata, Unused>>

GenerateYieldLexicons ==
    /\ pc = "generateYieldLexicons"
    /\ lexicons' = Append(lexicons, yieldLexicon(tag, metadata.derivedTreeConstants))
    /\ pc' = "generateFullLexicon"
    /\ UNCHANGED <<contents, tag, signatures, metadata, Unused>>

GenerateFullLexicon ==
    /\ pc = "generateFullLexicon"
    /\ lexicons' = Append(lexicons, ComposedLexicon("Full", "Abs", "Yield"))
    /\ pc' = "output"
    /\ UNCHANGED <<contents, tag, signatures, metadata, Unused>>

(***************************************************************************)
(* The grammars of Spec: the vocabulary of the john/sleeps grammar and up  *)
(* to MaxTrees elementary trees, the initial trees drawn from InitialBank  *)
(* (no footnode) and the auxiliary trees from AuxiliaryBank (one footnode, *)
(* a leaf).  A terminal is always a leaf.                                  *)
(***************************************************************************)
Sym(cs) == [value |-> cs]
List(head, rest) == [items |-> <<Sym(head)>> \o rest]

cS == <<"S">>
cNP == <<"N", "P">>
cVP == <<"V", "P">>
john == <<"j", "o", "h", "n">>
sleeps == <<"s", "l", "e", "e", "p", "s">>

\* S (NP) (VP (sleeps))
BankS == List(cS, <<List(cNP, <<>>), List(cVP, <<List(sleeps, <<>>)>>)>>)
\* NP (john)
BankNP == List(cNP, <<List(john, <<>>)>>)
\* NP (NP (john) (sleeps) (NP)) john
BankNP3 == List(cNP, <<List(cNP, <<List(john, <<>>), List(sleeps, <<>>), List(cNP, <<>>)>>),
                       Sym(john)>>)
\* VP_NA sleeps
BankVPsleeps == List(cVP \o NA, <<Sym(sleeps)>>)

InitialBank == {BankS, BankNP, BankNP3, BankVPsleeps}

\* VP (VP*) (NP)
BankVP == List(cVP, <<List(cVP \o STAR, <<>>), List(cNP, <<>>)>>)
\* VP_NA (sleeps) (VP*_NA)
BankVPNA == List(cVP \o NA, <<List(sleeps, <<>>), List(cVP \o STAR \o NA, <<>>)>>)
\* S (S*_NA)
BankSNA == List(cS, <<List(cS \o STAR \o NA, <<>>)>>)
\* S (NP) (VP (sleeps) (S*))
BankSfoot == List(cS, <<List(cNP, <<>>),
                        List(cVP, <<List(sleeps, <<>>), List(cS \o STAR, <<>>)>>)>>)

AuxiliaryBank == {BankVP, BankVPNA, BankSNA, BankSfoot}

Grammars ==
    UNION {{[terminals |-> <<john, sleeps>>,
             nonterminals |-> <<cS, cNP, cVP>>,
             initials |-> is,
             auxiliaries |-> as,
             distinguished |-> cS] :
                is \in [1..c[1] -> InitialBank], as \in [1..c[2] -> AuxiliaryBank]}
           : c \in {d \in (0..MaxTrees) \X (0..MaxTrees) : d[1] + d[2] <= MaxTrees}}

Init ==
    /\ pc = "parseTag"
    /\ contents \in Grammars
    /\ tag = None
    /\ signatures = <<>>
    /\ lexicons = <<>>
    /\ metadata = <<>>
    /\ symbol = None /\ tree = None /\ initial = None
    /\ treeType = None /\ treeTerm = None

Next ==
    \/ ParseTag
    \/ GenerateDerivationTrees
    \/ GenerateDerivedTreeConstants
    \/ GenerateDerivedTrees
    \/ GenerateStringSignature
    \/ GenerateAbsLexicon
    \/ GenerateYieldLexicons
    \/ GenerateFullLexicon

Spec == Init /\ [][Next]_vars

(***************************************************************************)
(* SpecTree: typeForTree and then lambdaRealizationOfTree applied, with    *)
(* either flag, to every tree of at most MaxNodes nodes over NodeSymbols   *)
(* (any node) and LeafSymbols (leaves only): every shape, every labelling, *)
(* footnodes and nonadjoining nodes at any place and in any number.        *)
(***************************************************************************)
NodeSymbols == {cS, cNP, cS \o NA, cNP \o STAR, cS \o STAR \o NA}
LeafSymbols == {<<"a">>}

\* the shapes of the trees of n nodes: the number of children of each node,
\* in depth-first pre-order
RECURSIVE Sum(_, _)
Sum(f, j) == IF j = 0 THEN 0 ELSE f[j] + Sum(f, j - 1)

Shapes(n) ==
    {ar \in [1..n -> 0..(n - 1)] :
        /\ Sum(ar, n) = n - 1
        /\ \A j \in 1..(n - 1) : Sum(ar, j) >= j}

\* the data of the tree description whose nodes, in pre-order, have the
\* symbols lab and the numbers of children ar
RECURSIVE DataAt(_, _, _)
RECURSIVE DataFrom(_, _, _, _)

DataAt(ar, lab, i) ==
    LET rest == DataFrom(ar, lab, i + 1, ar[i])
    IN  [data |-> List(lab[i], rest.items), next |-> rest.next]

DataFrom(ar, lab, i, count) ==
    IF count = 0 THEN [items |-> <<>>, next |-> i]
    ELSE LET first == DataAt(ar, lab, i)
             rest == DataFrom(ar, lab, first.next, count - 1)
         IN  [items |-> <<first.data>> \o rest.items, next |-> rest.next]

Idle == <<contents, tag, signatures, lexicons, metadata, symbol>>

InitTree ==
    /\ pc = "tree"
    /\ \E n \in 1..MaxNodes : \E ar \in Shapes(n) :
          \E lab \in [1..n -> NodeSymbols \cup LeafSymbols] :
              /\ \A i \in 1..n : lab[i] \in LeafSymbols => ar[i] = 0
              /\ tree = parseTree(DataAt(ar, lab, 1).data)
    /\ initial = None /\ treeType = None /\ treeTerm = None
    /\ contents = None /\ tag = None /\ signatures = None /\ lexicons = None
    /\ metadata = None /\ symbol = None

TypeForTree ==
    /\ pc = "tree"
    /\ \E init \in BOOLEAN :
        /\ initial' = init
        /\ treeType' = [text |-> typeForTree(tree, init),
                        nodes |-> typeNodes(tree, init),
                        sites |-> typeSites(tree)]
    /\ pc' = "typed"
    /\ UNCHANGED <<tree, treeTerm, Idle>>

LambdaRealizationOfTree ==
    /\ pc = "typed"
    /\ treeTerm' = lambdaTerm(tree, initial)
    /\ pc' = "realized"
    /\ UNCHANGED <<tree, initial, treeType, Idle>>

NextTree == TypeForTree \/ LambdaRealizationOfTree

SpecTree == InitTree /\ [][NextTree]_vars

(***************************************************************************)
(* SpecNode: one Tree(root) call for the symbol name X of at most          *)
(* MaxNameLen characters followed by each marker.                          *)
(***************************************************************************)
NameChars == {"N", "A", "P", "_", "p"}

RECURSIVE NamesOfLen(_)
NamesOfLen(n) ==
    IF n = 1 THEN {<<c>> : c \in NameChars \ {"_"}}
    ELSE {Append(x, c) : x \in NamesOfLen(n - 1), c \in NameChars}

Names == UNION {NamesOfLen(n) : n \in 1..MaxNameLen}

Markers == {<<>>, NA, STAR, STAR \o NA, NA \o STAR}

InitNode ==
    /\ pc = "symbol"
    /\ symbol \in [name : Names, marker : Markers]
    /\ tree = None
    /\ initial = None /\ treeType = None /\ treeTerm = None
    /\ contents = None /\ tag = None /\ signatures = None /\ lexicons = None
    /\ metadata = None

TreeInit ==
    /\ pc = "symbol"
    /\ tree' = Tree(symbol.name \o symbol.marker, <<>>)
    /\ pc' = "node"
    /\ UNCHANGED <<symbol, initial, treeType, treeTerm,
                   contents, tag, signatures, lexicons, metadata>>

NextNode == TreeInit

SpecNode == InitNode /\ [][NextNode]_vars

(***************************************************************************)
(* Vocabulary of the properties: the nodes of a tree by their path from    *)
(* the root, in depth-first pre-order, and the kinds of node.              *)
(***************************************************************************)
RECURSIVE Preorder(_)
Preorder(t) ==
    <<<<>>>> \o Flatten([k \in DOMAIN t.children |->
                  LET below == Preorder(t.children[k])
                  IN  [j \in DOMAIN below |-> <<k>> \o below[j]]])

RECURSIVE NodeAt(_, _)
NodeAt(t, path) ==
    IF path = <<>> THEN t ELSE NodeAt(t.children[Head(path)], Tail(path))

Nodes(t) == {NodeAt(t, p) : p \in Range(Preorder(t))}

Max(S) == CHOOSE x \in S : \A y \in S : y <= x

AdjunctionSite(n) ==
    is_nonterminal(n.root) /\ ~ n.footnode /\ ~ n.nonadjoining /\ Len(n.children) > 0

SubstitutionSite(n) ==
    is_nonterminal(n.root) /\ ~ n.footnode /\ ~ n.nonadjoining /\ Len(n.children) = 0

AdjunctionSites(t) == SelectSeq(Preorder(t), LAMBDA p : AdjunctionSite(NodeAt(t, p)))

SubstitutionSites(t) == SelectSeq(Preorder(t), LAMBDA p : SubstitutionSite(NodeAt(t, p)))

ArgumentTypes(t) ==
    LET a == AdjunctionSites(t)
        b == SubstitutionSites(t)
    IN  [k \in DOMAIN a |-> Str(NodeAt(t, a[k]).root) \o "_A"]
            \o [k \in DOMAIN b |-> Str(NodeAt(t, b[k]).root) \o "_S"]

Typed == pc \in {"typed", "realized"}

ElementaryTrees == Range(tag.initials) \cup Range(tag.auxiliaries)

AfterDerivationTrees == pc \notin {"parseTag", "generateDerivationTrees"}

AfterDerivedTrees ==
    pc \in {"generateStringSignature", "generateAbsLexicon", "generateYieldLexicons",
            "generateFullLexicon", "output"}

AfterAbsLexicon == pc \in {"generateYieldLexicons", "generateFullLexicon", "output"}

ConstantNames(signature) == {signature.constants[k][1] : k \in DOMAIN signature.constants}

TypesOf(signature, name) ==
    {signature.constants[k][2] :
        k \in {j \in DOMAIN signature.constants : signature.constants[j][1] = name}}

(***************************************************************************)
(* C1.  For an initial tree with a adjunction sites and s substitution     *)
(* sites, the inferred type is exactly a+s argument types followed by the  *)
(* result type <root>_S; the arguments are the adjunction-site types       *)
(* <label>_A in depth-first pre-order, then the substitution-site types    *)
(* <label>_S in depth-first pre-order.                                     *)
(***************************************************************************)
C1_InitialTreeType ==
    (Typed /\ initial) =>
        LET expected == ArgumentTypes(tree) \o <<Str(tree.root) \o "_S">>
        IN  /\ treeType.nodes = expected
            /\ Len(treeType.nodes) =
                   Len(AdjunctionSites(tree)) + Len(SubstitutionSites(tree)) + 1
            /\ treeType.text = Join(expected, " -> ")

\* an initial tree typed, in which a substitution site comes before an
\* adjunction site in depth-first order
C1_Witness ==
    /\ pc = "typed" /\ initial
    /\ LET order == Preorder(tree)
       IN  \E i, j \in DOMAIN order :
              /\ i < j
              /\ SubstitutionSite(NodeAt(tree, order[i]))
              /\ AdjunctionSite(NodeAt(tree, order[j]))

(***************************************************************************)
(* C2.  For an auxiliary tree, the result part of the inferred type is     *)
(* <root>_A if some node is both a footnode and nonadjoining, and          *)
(* <root>_A -> <root>_A otherwise, at whatever depth the footnode is.      *)
(***************************************************************************)
C2_AuxiliaryResultType ==
    (Typed /\ ~ initial) =>
        LET footnodeNA == \E n \in Nodes(tree) : n.footnode /\ n.nonadjoining
            result == IF footnodeNA THEN Str(tree.root) \o "_A"
                      ELSE Str(tree.root) \o "_A -> " \o Str(tree.root) \o "_A"
        IN  /\ treeType.nodes[Len(treeType.nodes)] = result
            /\ treeType.text = Join(ArgumentTypes(tree) \o <<result>>, " -> ")

\* an auxiliary tree typed, whose nonadjoining footnode lies two levels or
\* more below the root
C2_Witness ==
    /\ pc = "typed" /\ ~ initial
    /\ \E p \in Range(Preorder(tree)) :
          Len(p) >= 2 /\ NodeAt(tree, p).footnode /\ NodeAt(tree, p).nonadjoining

(***************************************************************************)
(* C3, as stated.  The number of variables the realized term binds is the  *)
(* number of nodes that are nonterminal, not a footnode and not            *)
(* nonadjoining, plus 1 if the tree is auxiliary.                          *)
(***************************************************************************)
C3_Original ==
    pc = "realized" =>
        Len(treeTerm.allVars) =
            Cardinality({p \in Range(Preorder(tree)) :
                LET n == NodeAt(tree, p)
                IN  is_nonterminal(n.root) /\ ~ n.footnode /\ ~ n.nonadjoining})
            + (IF initial THEN 0 ELSE 1)

(***************************************************************************)
(* C3, amended.  The number of variables the realized term binds is the    *)
(* number of nodes that are nonterminal and not nonadjoining (a footnode   *)
(* that is not nonadjoining counts), plus 1 if the tree is auxiliary.      *)
(***************************************************************************)
C3_BoundVariables ==
    pc = "realized" =>
        /\ Len(treeTerm.allVars) =
               Cardinality({p \in Range(Preorder(tree)) :
                   LET n == NodeAt(tree, p)
                   IN  is_nonterminal(n.root) /\ ~ n.nonadjoining})
               + (IF initial THEN 0 ELSE 1)
        /\ Cardinality(Range(treeTerm.allVars)) = Len(treeTerm.allVars)
        /\ treeTerm.text = "lambda " \o Join(treeTerm.allVars, " ") \o ". "
                               \o Render(treeTerm.expr)

\* an auxiliary tree realized, one of whose footnodes is not nonadjoining
C3_Witness ==
    /\ pc = "realized" /\ ~ initial
    /\ \E n \in Nodes(tree) : n.footnode /\ ~ n.nonadjoining

(***************************************************************************)
(* C6.  For every auxiliary tree, and every initial tree without a         *)
(* footnode, the realized term is closed: every variable occurring in the  *)
(* body (each lvar<i> and the reserved lvar) is in the binder list.        *)
(***************************************************************************)
C6_ClosedTerm ==
    (pc = "realized" /\ (~ initial \/ \A n \in Nodes(tree) : ~ n.footnode)) =>
        \A k \in DOMAIN treeTerm.expr :
            treeTerm.expr[k].kind = "var" =>
                treeTerm.expr[k].text \in Range(treeTerm.allVars)

\* an auxiliary tree realized, whose body uses the reserved lvar and the
\* variable of a node
C6_Witness ==
    /\ pc = "realized" /\ ~ initial
    /\ \E k \in DOMAIN treeTerm.expr : treeTerm.expr[k] = Piece("var", "lvar")
    /\ \E k \in DOMAIN treeTerm.expr : treeTerm.expr[k] = Piece("var", "lvar0")

(***************************************************************************)
(* C10.  The binders agree position by position with the argument types:   *)
(* the i-th bound variable is the variable of the node that contributed    *)
(* the i-th argument type, also when the footnode precedes a substitution  *)
(* site in depth-first order.  Stated for the trees the data model admits: *)
(* an initial tree has no footnode, an auxiliary tree has one, a leaf.     *)
(***************************************************************************)
WellFormed(t, init) ==
    LET feet == {p \in Range(Preorder(t)) : NodeAt(t, p).footnode}
    IN  IF init THEN feet = {}
        ELSE Cardinality(feet) = 1 /\ \A p \in feet : NodeAt(t, p).children = <<>>

C10_BindersMatchArguments ==
    (pc = "realized" /\ WellFormed(tree, initial)) =>
        \A i \in DOMAIN treeType.sites :
            /\ i <= Len(treeTerm.allVars)
            /\ treeTerm.allVars[i] = NodeAt(treeTerm.tree, treeType.sites[i]).varname

(***************************************************************************)
(* C5.  For a nonterminal name X followed by any combination of the        *)
(* nonadjoining marker and the footnode marker, in either order, or by     *)
(* neither, the constructed node's root is exactly X.                      *)
(***************************************************************************)
C5_RootIsName ==
    (pc = "node" /\ symbol.name[1] \in Upper) => tree.root = symbol.name

(***************************************************************************)
(* C7.  After TAG construction the i-th initial tree (from 0) is C_TI<i>,  *)
(* the j-th auxiliary tree is C_TA<n+j> for n initial trees, all           *)
(* identifiers differ, no node below a root has an identifier, and the     *)
(* Derivation_trees constants carry these identifiers.                     *)
(***************************************************************************)
C7_Identifiers ==
    pc # "parseTag" =>
        LET n == Len(tag.initials)
            roots == tag.initials \o tag.auxiliaries
        IN  /\ \A i \in DOMAIN tag.initials :
                   tag.initials[i].identifier = "C_TI" \o ToString(i - 1)
            /\ \A j \in DOMAIN tag.auxiliaries :
                   tag.auxiliaries[j].identifier = "C_TA" \o ToString(n + j - 1)
            /\ \A i, j \in DOMAIN roots :
                   i # j => roots[i].identifier # roots[j].identifier
            /\ \A i \in DOMAIN roots : \A p \in Range(Preorder(roots[i])) :
                   p # <<>> => NodeAt(roots[i], p).identifier = None
            /\ AfterDerivationTrees =>
                   \A i \in DOMAIN roots :
                       signatures[1].constants[i][1] = roots[i].identifier

\* a grammar with an initial tree and two auxiliary trees, numbered
C7_Witness ==
    /\ pc = "generateDerivedTreeConstants"
    /\ Len(tag.initials) >= 1
    /\ Len(tag.auxiliaries) >= 2

(***************************************************************************)
(* C4.  For every nonterminal N, the arities i with a constant N_i in      *)
(* Derived_trees are exactly 1..maxChildren(N), the most children of any   *)
(* node labelled N in any elementary tree, and N_i is typed as a chain of  *)
(* i+1 occurrences of tree.                                                *)
(***************************************************************************)
maxChildren(N) ==
    Max({0} \cup {Len(n.children) :
                    n \in {m \in UNION {Nodes(t) : t \in ElementaryTrees} : m.root = N}})

RECURSIVE TreeChain(_)
TreeChain(i) == IF i = 0 THEN "tree" ELSE "tree -> " \o TreeChain(i - 1)

C4_ConstructorArities ==
    AfterDerivedTrees =>
        LET widest == Max({0} \cup {Len(n.children) :
                                      n \in UNION {Nodes(t) : t \in ElementaryTrees}})
        IN  \A k \in DOMAIN tag.nonterminals :
               LET N == tag.nonterminals[k]
                   name(i) == Str(N) \o "_" \o ToString(i)
               IN  /\ {i \in 0..(widest + 1) : name(i) \in ConstantNames(signatures[2])}
                          = 1..maxChildren(N)
                   /\ \A i \in 1..maxChildren(N) :
                          TypesOf(signatures[2], name(i)) = {TreeChain(i)}

\* a grammar whose widest NP node has three children and is followed, in a
\* later tree, by an NP node with one child
C4_Witness ==
    /\ pc = "generateStringSignature"
    /\ maxChildren(cNP) = 3
    /\ LET roots == tag.initials \o tag.auxiliaries
       IN  Len(roots) >= 2 /\ roots[Len(roots)].root = cNP
               /\ Len(roots[Len(roots)].children) = 1

(***************************************************************************)
(* C8, as stated.  For the grammar of scenario 1 the Derivation_trees      *)
(* signature has constants C_TI0 and C_TI1, and the type of C_TI1, the     *)
(* tree NP (john), is exactly NP_S.                                        *)
(***************************************************************************)
Scenario1 ==
    [terminals |-> <<john, sleeps>>,
     nonterminals |-> <<cS, cNP, cVP>>,
     initials |-> <<BankS, BankNP>>,
     auxiliaries |-> <<>>,
     distinguished |-> cS]

C8_Original ==
    (AfterDerivationTrees /\ contents = Scenario1) =>
        /\ {"C_TI0", "C_TI1"} \subseteq ConstantNames(signatures[1])
        /\ TypesOf(signatures[1], "C_TI1") = {"NP_S"}

(***************************************************************************)
(* C8, amended.  For the grammar of scenario 1 the Derivation_trees        *)
(* signature has constants C_TI0 and C_TI1, and the type of C_TI1 is       *)
(* exactly NP_A -> NP_S: the root NP has a child, so it is an adjunction   *)
(* site.                                                                   *)
(***************************************************************************)
C8_Scenario1Types ==
    (AfterDerivationTrees /\ contents = Scenario1) =>
        /\ {"C_TI0", "C_TI1"} \subseteq ConstantNames(signatures[1])
        /\ TypesOf(signatures[1], "C_TI1") = {"NP_A -> NP_S"}

\* the grammar of scenario 1 with its Derivation_trees signature generated
C8_Witness ==
    /\ pc = "generateDerivedTrees"
    /\ contents = Scenario1
    /\ Len(signatures) = 1 /\ signatures[1].name = "Derivation_trees"

(***************************************************************************)
(* C9.  Every tree-constructor constant <N>_<k> in the body of a term of   *)
(* the Abs lexicon is a constant of the Derived_trees signature, the one   *)
(* written for a nonterminal leaf included.                                *)
(***************************************************************************)
C9_ConstructorsDeclared ==
    AfterAbsLexicon =>
        \A init \in BOOLEAN :
            \A t \in Range(IF init THEN tag.initials ELSE tag.auxiliaries) :
                LET term == lambdaTerm(t, init)
                IN  /\ <<t.identifier, term.text>> \in Range(lexicons[1].mappings)
                    /\ \A k \in DOMAIN term.expr :
                           term.expr[k].kind = "constructor" =>
                               term.expr[k].text \in ConstantNames(signatures[2])

====
